---- MODULE Spec2Model ----
(***************************************************************************)
(* The montage route handler POST (src/unnamed/part_000): one request is   *)
(* read, the LLM is asked for a montage descriptor, the descriptor is      *)
(* parsed, at most five prompts are fanned out to the image service with   *)
(* Promise.all, and one JSON response is sent.                             *)
(***************************************************************************)
EXTENDS Integers, Sequences, FiniteSets, TLC

\* ------------------------------------------------------------------ bounds

\* Largest number of segments in a descriptor when two requests are
\* handled concurrently.
ConcSegs == 2

\* Largest number of segments in a descriptor the LLM returns.
MaxSegs == 6

\* .slice(0, 5): the cap on the prompt list.
PromptCap == 5

\* ------------------------------------------------------------- JSON values

\* A JavaScript value is a record tagged by t; `undef` is JavaScript's
\* undefined, which JSON.parse never produces but property access does.
JUndef == [t |-> "undef"]

JNull == [t |-> "null"]

JNum(n) == [t |-> "num", n |-> n]

JStr(s) == [t |-> "str", s |-> s]

JArr(a) == [t |-> "arr", a |-> a]

JObj(o) == [t |-> "obj", o |-> o]

\* {}: the object literal without properties.
EmptyObj == JObj(<<>>)

\* v.k as JavaScript evaluates it on a value that is neither null nor
\* undefined: a property of an object, undefined on anything else (the
\* model's strings, numbers and arrays have no property the handler reads).
Get(v, k) ==
  IF v.t = "obj" /\ k \in DOMAIN v.o THEN v.o[k] ELSE JUndef

\* !v: the values JavaScript treats as false.
Falsy(v) ==
  \/ v.t \in {"undef", "null"}
  \/ v.t = "str" /\ v.s = ""
  \/ v.t = "num" /\ v.n = 0

\* --------------------------------------------------------------- JSON text

\* A text is a sequence of tokens.  " " is white space; a token of StrLits
\* stands for the quoted string literal of that content; any other token
\* ("not", "json", "fence") is text JSON has no production for.
PromptNames == <<"p1", "p2", "p3", "p4", "p5", "p6", "p7", "p8">>

StrLits ==
  {"", "text", "hello", "montageTitle", "segments", "prompt", "segmentTitle", "T"}
    \cup {PromptNames[i] : i \in DOMAIN PromptNames}

NumToks == {"0", "42"}

NumVal(tok) == IF tok = "0" THEN 0 ELSE 42

NumTok(n) == IF n = 0 THEN "0" ELSE "42"

ParseFail == [ok |-> FALSE, v |-> JUndef, rest |-> <<>>]

ParseOk(v, rest) == [ok |-> TRUE, v |-> v, rest |-> rest]

RECURSIVE SkipWs(_)
SkipWs(s) ==
  IF s # <<>> /\ Head(s) = " " THEN SkipWs(Tail(s)) ELSE s

RECURSIVE ParseValue(_)
RECURSIVE ParseElements(_, _, _)
RECURSIVE ParseMembers(_, _, _)

\* One JSON value at the head of s, white space before it skipped.
ParseValue(s) ==
  LET s0 == SkipWs(s) IN
  IF s0 = <<>> THEN ParseFail
  ELSE LET h == Head(s0) IN
       IF h = "null" THEN ParseOk(JNull, Tail(s0))
       ELSE IF h \in NumToks THEN ParseOk(JNum(NumVal(h)), Tail(s0))
       ELSE IF h \in StrLits THEN ParseOk(JStr(h), Tail(s0))
       ELSE IF h = "[" THEN ParseElements(Tail(s0), <<>>, TRUE)
       ELSE IF h = "{" THEN ParseMembers(Tail(s0), <<>>, TRUE)
       ELSE ParseFail

\* The elements of an array after "[": acc holds those read so far, first
\* says that none was read yet (only then may "]" follow directly).
ParseElements(s, acc, first) ==
  LET s0 == SkipWs(s) IN
  IF s0 = <<>> THEN ParseFail
  ELSE IF first /\ Head(s0) = "]" THEN ParseOk(JArr(acc), Tail(s0))
  ELSE LET e == ParseValue(s0) IN
       IF ~e.ok THEN ParseFail
       ELSE LET s1 == SkipWs(e.rest) IN
            IF s1 = <<>> THEN ParseFail
            ELSE IF Head(s1) = "," THEN ParseElements(Tail(s1), Append(acc, e.v), FALSE)
            ELSE IF Head(s1) = "]" THEN ParseOk(JArr(Append(acc, e.v)), Tail(s1))
            ELSE ParseFail

\* The members of an object after "{"; a repeated key keeps its last value.
ParseMembers(s, acc, first) ==
  LET s0 == SkipWs(s) IN
  IF s0 = <<>> THEN ParseFail
  ELSE IF first /\ Head(s0) = "}" THEN ParseOk(JObj(acc), Tail(s0))
  ELSE IF Head(s0) \notin StrLits THEN ParseFail
  ELSE LET k  == Head(s0)
           s1 == SkipWs(Tail(s0))
       IN
       IF s1 = <<>> \/ Head(s1) # ":" THEN ParseFail
       ELSE LET e == ParseValue(Tail(s1)) IN
            IF ~e.ok THEN ParseFail
            ELSE LET s2  == SkipWs(e.rest)
                     new == (k :> e.v) @@ acc
                 IN
                 IF s2 = <<>> THEN ParseFail
                 ELSE IF Head(s2) = "," THEN ParseMembers(Tail(s2), new, FALSE)
                 ELSE IF Head(s2) = "}" THEN ParseOk(JObj(new), Tail(s2))
                 ELSE ParseFail

\* A parser that stops after the first value and ignores what follows it.
JSONParsePrefix(s) ==
  LET r == ParseValue(s) IN
  IF r.ok THEN ParseOk(r.v, <<>>) ELSE ParseFail

\* JSON.parse: one value and nothing but white space after it; ok = FALSE
\* stands for the SyntaxError it throws.
JSONParse(s) ==
  LET r == ParseValue(s) IN
  IF r.ok /\ SkipWs(r.rest) = <<>> THEN ParseOk(r.v, <<>>) ELSE ParseFail

RECURSIVE TrimEnd(_)
TrimEnd(s) ==
  IF s # <<>> /\ s[Len(s)] = " " THEN TrimEnd(SubSeq(s, 1, Len(s) - 1)) ELSE s

\* String.prototype.trim
Trim(s) == TrimEnd(SkipWs(s))

\* ------------------------------------------------------------ JSON writing

\* The order in which an object's keys are written.
KeyOrder == <<"montageTitle", "text", "segmentTitle", "prompt", "segments", "output">>

RECURSIVE Stringify(_)
RECURSIVE StringifyAll(_)
RECURSIVE StringifyMembers(_, _)

\* The text of a value, as a service that answers in JSON writes it.
Stringify(v) ==
  IF v.t = "null" THEN <<"null">>
  ELSE IF v.t = "num" THEN <<NumTok(v.n)>>
  ELSE IF v.t = "str" THEN <<v.s>>
  ELSE IF v.t = "arr" THEN <<"[">> \o StringifyAll(v.a) \o <<"]">>
  ELSE <<"{">>
         \o StringifyMembers(v.o, SelectSeq(KeyOrder, LAMBDA k : k \in DOMAIN v.o))
         \o <<"}">>

StringifyAll(a) ==
  IF a = <<>> THEN <<>>
  ELSE IF Len(a) = 1 THEN Stringify(a[1])
  ELSE Stringify(a[1]) \o <<",">> \o StringifyAll(Tail(a))

StringifyMembers(o, keys) ==
  IF keys = <<>> THEN <<>>
  ELSE LET m == <<keys[1], ":">> \o Stringify(o[keys[1]]) IN
       IF Len(keys) = 1 THEN m ELSE m \o <<",">> \o StringifyMembers(o, Tail(keys))

\* ------------------------------------------------------------- environment

\* process.env holds a string, the empty string or nothing for a variable.
EnvValues == {JUndef, JStr(""), JStr("key")}

\* The bodies a client posts: JSON of several shapes, an empty body and a
\* body that is no JSON.
BodyValues ==
  { JObj([text |-> JStr("hello")]),
    JObj([text |-> JStr("")]),
    JObj([text |-> JNum(42)]),
    JObj([text |-> JNum(0)]),
    JObj([text |-> JNull]),
    EmptyObj,
    JNum(42),
    JArr(<<>>),
    JNull }

BodyTexts ==
  {Stringify(v) : v \in BodyValues} \cup {<<>>, <<"not", "json">>}

\* One segment of a descriptor: well formed, with an empty prompt, without
\* the prompt field, or null in place of the object.
Segment(kind, i) ==
  IF kind = "empty" THEN JObj([prompt |-> JStr("")])
  ELSE IF kind = "noPrompt" THEN JObj([segmentTitle |-> JStr("T")])
  ELSE IF kind = "null" THEN JNull
  ELSE JObj([prompt |-> JStr(PromptNames[((i - 1) % Len(PromptNames)) + 1])])

\* A descriptor of n segments whose k-th segment is of the given kind.
Descriptor(n, kind, k) ==
  JObj([montageTitle |-> JStr("T"),
        segments |-> JArr([i \in 1..n |-> Segment(IF i = k THEN kind ELSE "ok", i)])])

\* The JSON values the LLM may answer with: descriptors that follow the
\* schema, descriptors that break it, and values that are no descriptor.
LLMValues ==
  {Descriptor(n, "ok", 0) : n \in 0..MaxSegs}
    \cup UNION {{Descriptor(n, "noPrompt", 1), Descriptor(n, "empty", n),
                  Descriptor(n, "null", 1), Descriptor(n, "null", n)} : n \in 1..MaxSegs}
    \cup { JNull, JNum(42), JArr(<<>>), JStr("hello"),
           JObj([montageTitle |-> JStr("T")]),
           JObj([montageTitle |-> JStr("T"), segments |-> JStr("T")]),
           JObj([montageTitle |-> JStr("T"), segments |-> EmptyObj]) }

\* The same JSON with white space around it.
Padded(s) == <<" ">> \o s \o <<" ", " ">>

ParsableTexts ==
  {Stringify(v) : v \in LLMValues}
    \cup {Padded(Stringify(Descriptor(n, "ok", 0))) : n \in {0, 2}}

\* Answers that are no JSON: an empty answer, prose, JSON in a markdown
\* fence, JSON cut short, a trailing comma, a member without a value.
UnparsableTexts ==
  { <<>>,
    <<" ">>,
    <<"not", "json">>,
    <<"fence">> \o Stringify(Descriptor(2, "ok", 0)) \o <<"fence">>,
    SubSeq(Stringify(Descriptor(2, "ok", 0)), 1, Len(Stringify(Descriptor(2, "ok", 0))) - 1),
    <<"[", "null", ",", "]">>,
    <<"{", "segments", "}">>,
    Stringify(Descriptor(2, "ok", 0)) \o <<"null">> }

LLMTexts == ParsableTexts \cup UnparsableTexts

\* The value each parsable answer was written from.
WrittenOf == [txt \in ParsableTexts |-> CHOOSE v \in LLMValues : Stringify(v) = Trim(txt)]

Written(txt) == WrittenOf[txt]

\* The payload of the image generated by call i of request r.
Image(r, i) == [t |-> "img", req |-> r, idx |-> i]

\* What a fulfilled image call resolves to: a result with its output, a
\* result without the output field, one whose output is null, or nothing.
ImageResults(r, i) ==
  {JObj([output |-> Image(r, i)]), EmptyObj, JObj([output |-> JNull]), JUndef}

\* ----------------------------------------------------------------- handler

VARIABLES
  env,    \* process.env: GOOGLE_API_KEY and FAL_AI_API_KEY
  reqs    \* the requests being handled: request id -> the state of its POST call

vars == <<env, reqs>>

\* The ids requests are drawn from.
AllReqs == {1, 2}

\* MONTAGE_SCHEMA, as far as it constrains a descriptor.
MONTAGE_SCHEMA ==
  [required |-> {"montageTitle", "segments"}, segmentRequired |-> {"prompt"}, minItems |-> 2]

\* The JSON responses the handler sends.  (The first message is written
\* with backquotes around text in the source.)
JsonResponse(status, body) == [status |-> status, body |-> body]

TextRequired == JsonResponse(400, JObj([error |-> JStr("'text' field is required")]))

InvalidJson == JsonResponse(500, JObj([error |-> JStr("Gemini returned invalid JSON")]))

InternalError == JsonResponse(500, JObj([error |-> JStr("Internal Server Error")]))

\* A response whose montage keeps only the segments that got an image.
MontageResponseCut(montageData, falOutputs) ==
  JsonResponse(200,
    JObj([montage |->
            JObj([k \in DOMAIN montageData.o |->
                    IF k = "segments"
                    THEN JArr(SubSeq(montageData.o[k].a, 1, Len(falOutputs)))
                    ELSE montageData.o[k]]),
          falOutputs |-> JArr(falOutputs)]))

MontageResponse(montageData, falOutputs) ==
  JsonResponse(200, JObj([montage |-> montageData, falOutputs |-> JArr(falOutputs)]))

\* A POST call that has been received and not yet run: its locals unset, no
\* outbound call issued, no response sent.  overtaken is history the handler
\* never reads: an image call has settled while one issued before it was
\* still pending.
NewRequest(body) ==
  [ pc          |-> "Received",
    body        |-> body,
    text        |-> JUndef,
    llm         |-> "idle",
    llmCalls    |-> <<>>,
    llmText     |-> <<>>,
    montageData |-> JUndef,
    prompts     |-> <<>>,
    fal         |-> <<>>,
    values      |-> <<>>,
    overtaken   |-> FALSE,
    thrown      |-> "none",
    resp        |-> <<>> ]

\* return NextResponse.json(...): the call ends with this response.
Return(q, response) ==
  [q EXCEPT !.pc = IF response.status = 200 THEN "Completed" ELSE "Failed",
            !.resp = Append(@, response)]

\* A handler that tells the caller what was thrown.
CatchAndTell(q, error) ==
  Return([q EXCEPT !.thrown = error], JsonResponse(500, JObj([error |-> JStr(error)])))

\* catch (error): the error is logged and the generic response returned.
Catch(q, error) ==
  Return([q EXCEPT !.thrown = error], InternalError)

\* !text || typeof text !== "string"
TextInvalid(text) == Falsy(text) \/ text.t # "str"

\* The instruction sent to the LLM: the schema and the user's text.
BuildPrompt(text) == [schema |-> MONTAGE_SCHEMA, userInput |-> text.s]

\* An extraction that takes a missing segments array for an empty one
\* ((montageData?.segments ?? []) in place of montageData.segments).
ExtractPromptsLenient(montageData) ==
  LET segments == Get(montageData, "segments") IN
  IF segments.t # "arr" THEN [ok |-> TRUE, prompts |-> <<>>]
  ELSE IF \E i \in DOMAIN segments.a : segments.a[i].t \in {"null", "undef"}
  THEN [ok |-> FALSE, prompts |-> <<>>]
  ELSE LET mapped == [i \in DOMAIN segments.a |-> Get(segments.a[i], "prompt")] IN
       [ok |-> TRUE,
        prompts |-> SubSeq(mapped, 1, IF Len(mapped) < PromptCap THEN Len(mapped) ELSE PromptCap)]

\* The extraction without its slice(0, 5).
ExtractPromptsUncapped(montageData) ==
  LET segments == Get(montageData, "segments") IN
  IF montageData.t \in {"null", "undef"} \/ segments.t # "arr"
       \/ \E i \in DOMAIN segments.a : segments.a[i].t \in {"null", "undef"}
  THEN [ok |-> FALSE, prompts |-> <<>>]
  ELSE [ok |-> TRUE, prompts |-> [i \in DOMAIN segments.a |-> Get(segments.a[i], "prompt")]]

\* montageData.segments.map((segment) => segment.prompt).slice(0, 5);
\* ok = FALSE is the TypeError of reading a property of null or undefined
\* or of calling a map that is not there.
ExtractPrompts(montageData) ==
  LET segments == Get(montageData, "segments") IN
  IF montageData.t \in {"null", "undef"} \/ segments.t # "arr"
       \/ \E i \in DOMAIN segments.a : segments.a[i].t \in {"null", "undef"}
  THEN [ok |-> FALSE, prompts |-> <<>>]
  ELSE LET mapped == [i \in DOMAIN segments.a |-> Get(segments.a[i], "prompt")] IN
       [ok |-> TRUE,
        prompts |-> SubSeq(mapped, 1, IF Len(mapped) < PromptCap THEN Len(mapped) ELSE PromptCap)]

\* fal.subscribe("fal-ai/flux/dev", {input: {prompt}}), one call per prompt.
Subscribe(prompts) ==
  [i \in DOMAIN prompts |-> [prompt |-> prompts[i], st |-> "pending", res |-> JUndef]]

\* A join that keeps the values in the order in which they arrive.
StoreValueOnArrival(values, index, value) == ((Cardinality(DOMAIN values) + 1) :> value) @@ values

\* Promise.all keeps the value of the index-th promise at that index.
StoreValue(values, index, value) == (index :> value) @@ values

\* res?.output ?? {}
OutputOf(res) ==
  IF res.t \in {"null", "undef"} THEN EmptyObj
  ELSE IF Get(res, "output").t \in {"null", "undef"} THEN EmptyObj
  ELSE Get(res, "output")

\* A mapping that drops the results without output.
FalOutputsDefined(falResponses) ==
  LET all == [i \in DOMAIN falResponses |-> OutputOf(falResponses[i])] IN
  SelectSeq(all, LAMBDA o : o # EmptyObj)

\* falResponses.map((res) => res?.output ?? {})
FalOutputs(falResponses) == [i \in DOMAIN falResponses |-> OutputOf(falResponses[i])]

\* A handler that reads both credentials before it calls the LLM.
AfterBodyChecksBoth(q, e) ==
  LET parsed == JSONParse(q.body) IN
  IF ~parsed.ok \/ parsed.v.t = "null" THEN Catch(q, "BodyError")
  ELSE LET text == Get(parsed.v, "text") IN
       IF TextInvalid(text) THEN Return(q, TextRequired)
       ELSE IF Falsy(e.GOOGLE_API_KEY) THEN Catch([q EXCEPT !.text = text], "MissingGoogleKey")
       ELSE IF Falsy(e.FAL_AI_API_KEY) THEN Catch([q EXCEPT !.text = text], "MissingFalKey")
       ELSE [q EXCEPT !.pc = "Generating",
                      !.text = text,
                      !.llm = "pending",
                      !.llmCalls = Append(@, BuildPrompt(text))]

\* Lines 61-87: the body is read and destructured, text is checked, the LLM
\* credential is read and the LLM is called.
AfterBody(q, e) ==
  LET parsed == JSONParse(q.body) IN
  IF ~parsed.ok \/ parsed.v.t = "null" THEN Catch(q, "BodyError")
  ELSE LET text == Get(parsed.v, "text") IN
       IF TextInvalid(text) THEN Return(q, TextRequired)
       ELSE IF Falsy(e.GOOGLE_API_KEY) THEN Catch([q EXCEPT !.text = text], "MissingGoogleKey")
       ELSE [q EXCEPT !.pc = "Generating",
                      !.text = text,
                      !.llm = "pending",
                      !.llmCalls = Append(@, BuildPrompt(text))]

\* Lines 106-123 once the prompts are extracted: the image credential is
\* read and the calls are issued; Promise.all of no promise is fulfilled
\* at once.
FanOut(q, e) ==
  IF Falsy(e.FAL_AI_API_KEY) THEN Catch(q, "MissingFalKey")
  ELSE IF q.prompts = <<>> THEN Return(q, MontageResponse(q.montageData, <<>>))
  ELSE [q EXCEPT !.pc = "FanningOut", !.fal = Subscribe(q.prompts)]

\* Lines 89-118: the LLM's text is trimmed and parsed, the prompts are
\* extracted and fanned out.
AfterGenerate(q, e, txt) ==
  LET q1     == [q EXCEPT !.llm = "fulfilled", !.llmText = txt]
      parsed == JSONParse(Trim(txt))
  IN
  IF ~parsed.ok THEN Return(q1, InvalidJson)
  ELSE LET q2 == [q1 EXCEPT !.montageData = parsed.v]
           ex == ExtractPrompts(parsed.v)
       IN
       IF ~ex.ok THEN Catch(q2, "TypeError")
       ELSE FanOut([q2 EXCEPT !.prompts = ex.prompts], e)

\* Call i settles while a call issued before it is still pending.
Overtakes(q, i) == \E j \in 1..(i - 1) : q.fal[j].st = "pending"

\* A join that resumes with the first value (Promise.race in place of
\* Promise.all).
AfterImageFirst(q, i, res) ==
  LET q1 == [q EXCEPT !.fal[i].st = "fulfilled", !.fal[i].res = res,
                      !.values = (i :> res) @@ @,
                      !.overtaken = @ \/ (\E j \in 1..(i - 1) : q.fal[j].st = "pending")]
  IN
  IF q.pc = "FanningOut"
  THEN [q1 EXCEPT !.pc = "Completed",
                  !.resp = Append(@, [status |-> 200,
                                      body |-> JObj([montage |-> q1.montageData,
                                                     falOutputs |-> JArr(<<>>)])])]
  ELSE q1

\* An image call is fulfilled.  Promise.all stores the value; when it was
\* the last one, the await at line 112 resumes and the response is built.
AfterImage(q, i, res) ==
  LET q1 == [q EXCEPT !.fal[i].st = "fulfilled", !.fal[i].res = res,
                      !.values = StoreValue(@, i, res),
                      !.overtaken = @ \/ Overtakes(q, i)]
  IN
  IF q.pc = "FanningOut" /\ Cardinality(DOMAIN q1.values) = Len(q.fal)
  THEN Return(q1, MontageResponse(q1.montageData, FalOutputs(q1.values)))
  ELSE q1

\* A join that settles every call and leaves a gap for a rejected one
\* (Promise.allSettled with the failures mapped to nothing).
AfterImageErrorSettled(q, i) ==
  LET q1 == [q EXCEPT !.fal[i].st = "rejected",
                      !.values = (i :> JUndef) @@ @,
                      !.overtaken = @ \/ Overtakes(q, i)]
  IN
  IF q.pc = "FanningOut" /\ Cardinality(DOMAIN q1.values) = Len(q.fal)
  THEN Return(q1, JsonResponse(200,
         JObj([montage |-> q1.montageData,
               falOutputs |-> JArr([j \in DOMAIN q1.values |->
                                      IF q1.values[j].t \in {"null", "undef"}
                                           \/ Get(q1.values[j], "output").t \in {"null", "undef"}
                                      THEN EmptyObj
                                      ELSE Get(q1.values[j], "output")])])))
  ELSE q1

\* A handler that runs its catch block for every rejected call.
AfterImageErrorEach(q, i) ==
  Catch([q EXCEPT !.fal[i].st = "rejected", !.overtaken = @ \/ Overtakes(q, i)], "ImageError")

\* An image call is rejected.  Promise.all rejects with the first
\* rejection, without waiting for the calls still pending; a later
\* rejection finds the promise settled.
AfterImageError(q, i) ==
  LET q1 == [q EXCEPT !.fal[i].st = "rejected", !.overtaken = @ \/ Overtakes(q, i)] IN
  IF q.pc = "FanningOut" THEN Catch(q1, "ImageError") ELSE q1

ReadBody(r) ==
  /\ r \in DOMAIN reqs
  /\ reqs[r].pc = "Received"
  /\ reqs' = [reqs EXCEPT ![r] = AfterBody(@, env)]
  /\ UNCHANGED env

\* A handler that calls the LLM again when the call fails.
GenerateRejectsRetry(r) ==
  /\ r \in DOMAIN reqs
  /\ reqs[r].pc = "Generating"
  /\ reqs[r].llm = "pending"
  /\ reqs' = [reqs EXCEPT ![r].llmCalls = Append(@, @[1])]
  /\ UNCHANGED env

GenerateRejects(r) ==
  /\ r \in DOMAIN reqs
  /\ reqs[r].pc = "Generating"
  /\ reqs[r].llm = "pending"
  /\ reqs' = [reqs EXCEPT ![r] = Catch([@ EXCEPT !.llm = "rejected"], "LLMError")]
  /\ UNCHANGED env

\* A handler whose montageData is declared at module scope: every
\* activation reads the descriptor parsed last.
GenerateReturnsShared(r, txt) ==
  /\ r \in DOMAIN reqs
  /\ reqs[r].pc = "Generating"
  /\ reqs[r].llm = "pending"
  /\ reqs' = [x \in DOMAIN reqs |->
               IF x = r THEN AfterGenerate(reqs[r], env, txt)
               ELSE IF JSONParse(Trim(txt)).ok
               THEN [reqs[x] EXCEPT !.montageData = JSONParse(Trim(txt)).v]
               ELSE reqs[x]]
  /\ UNCHANGED env

GenerateReturns(r, txt) ==
  /\ r \in DOMAIN reqs
  /\ reqs[r].pc = "Generating"
  /\ reqs[r].llm = "pending"
  /\ reqs' = [reqs EXCEPT ![r] = AfterGenerate(@, env, txt)]
  /\ UNCHANGED env

ImageFulfils(r, i, res) ==
  /\ r \in DOMAIN reqs
  /\ i \in DOMAIN reqs[r].fal
  /\ reqs[r].fal[i].st = "pending"
  /\ reqs' = [reqs EXCEPT ![r] = AfterImage(@, i, res)]
  /\ UNCHANGED env

ImageRejects(r, i) ==
  /\ r \in DOMAIN reqs
  /\ i \in DOMAIN reqs[r].fal
  /\ reqs[r].fal[i].st = "pending"
  /\ reqs' = [reqs EXCEPT ![r] = AfterImageError(@, i)]
  /\ UNCHANGED env

\* One request arrives; the environment is whatever the process was
\* started with.
Init ==
  /\ env \in [GOOGLE_API_KEY : EnvValues, FAL_AI_API_KEY : EnvValues]
  /\ \E body \in BodyTexts : reqs = [r \in {1} |-> NewRequest(body)]

Next ==
  \/ \E r \in AllReqs : ReadBody(r)
  \/ \E r \in AllReqs : GenerateRejects(r)
  \/ \E r \in AllReqs, txt \in LLMTexts : GenerateReturns(r, txt)
  \/ \E r \in AllReqs, i \in 1..PromptCap :
       \E res \in ImageResults(r, i) : ImageFulfils(r, i, res)
  \/ \E r \in AllReqs, i \in 1..PromptCap : ImageRejects(r, i)

Spec == Init /\ [][Next]_vars

\* The event loop runs a handler whose awaited promise has settled, and
\* every outbound call settles, fulfilled or rejected.
Fairness ==
  \A r \in AllReqs :
    /\ WF_vars(ReadBody(r))
    /\ WF_vars(GenerateRejects(r) \/ \E txt \in LLMTexts : GenerateReturns(r, txt))
    /\ \A i \in 1..PromptCap :
         WF_vars(ImageRejects(r, i) \/ \E res \in ImageResults(r, i) : ImageFulfils(r, i, res))

LiveSpec == Spec /\ Fairness

\* Two requests handled concurrently.  Each is accepted or lacks its text;
\* the LLM answers with a descriptor of at most ConcSegs segments, with a
\* number, or with prose.
ConcBodies == {Stringify(JObj([text |-> JStr("hello")])), Stringify(EmptyObj)}

ConcTexts ==
  {Stringify(Descriptor(n, "ok", 0)) : n \in 1..ConcSegs}
    \cup {Stringify(JNum(42)), <<"not", "json">>}

ConcInit ==
  /\ env \in [GOOGLE_API_KEY : EnvValues, FAL_AI_API_KEY : EnvValues]
  /\ \E bodies \in [AllReqs -> ConcBodies] :
       reqs = [r \in AllReqs |-> NewRequest(bodies[r])]

ConcNext ==
  \/ \E r \in AllReqs : ReadBody(r)
  \/ \E r \in AllReqs : GenerateRejects(r)
  \/ \E r \in AllReqs, txt \in ConcTexts : GenerateReturns(r, txt)
  \/ \E r \in AllReqs, i \in 1..PromptCap :
       \E res \in ImageResults(r, i) : ImageFulfils(r, i, res)
  \/ \E r \in AllReqs, i \in 1..PromptCap : ImageRejects(r, i)

ConcSpec == ConcInit /\ [][ConcNext]_vars

\* ------------------------------------------------------------------ claims

\* The bodies whose text is a non-empty string: the accepted requests.
AcceptedBodies == {Stringify(JObj([text |-> JStr("hello")]))}

Accepted(q) == q.body \in AcceptedBodies

Terminal(q) == q.pc \in {"Completed", "Failed"}

Min(a, b) == IF a < b THEN a ELSE b

\* The segments of the descriptor the LLM's answer was written from.
WrittenSegments(q) == Get(Written(q.llmText), "segments").a

\* C1: a request whose text is absent, empty or not a string is answered
\* with HTTP 400 and the text-required body once its body has been read, and
\* no LLM call and no image call is issued for it.
C1_InputError ==
  \A r \in DOMAIN reqs :
    LET q == reqs[r] IN
    (~Accepted(q) /\ q.pc # "Received")
      => /\ q.resp = <<TextRequired>>
         /\ q.llmCalls = <<>>
         /\ q.fal = <<>>

\* C2: when the LLM's answer to an accepted request is no JSON, the response
\* is HTTP 500 with the invalid-JSON body and no image call is issued.
C2_InvalidJson ==
  \A r \in DOMAIN reqs :
    LET q == reqs[r] IN
    (Accepted(q) /\ q.llm = "fulfilled" /\ q.llmText \in UnparsableTexts)
      => /\ q.resp = <<InvalidJson>>
         /\ q.fal = <<>>

\* The LLM wrapped its JSON in a markdown fence and the request has failed.
C2_Witness ==
  \E r \in DOMAIN reqs :
    /\ reqs[r].pc = "Failed"
    /\ reqs[r].llm = "fulfilled"
    /\ reqs[r].llmText = <<"fence">> \o Stringify(Descriptor(2, "ok", 0)) \o <<"fence">>

\* The request has got as far as issuing its image calls.
FannedOut(q) == q.pc \in {"FanningOut", "Completed"} \/ q.thrown = "ImageError"

\* C3: a fan-out over a descriptor of n segments issues exactly min(5, n)
\* image calls, the i-th with the prompt of segments[i]; never more than 5.
C3_FanOutCap ==
  \A r \in DOMAIN reqs :
    LET q == reqs[r] IN
    /\ Len(q.fal) <= PromptCap
    /\ FannedOut(q)
         => /\ Len(q.fal) = Min(PromptCap, Len(WrittenSegments(q)))
            /\ \A i \in 1..Len(q.fal) :
                 q.fal[i].prompt = Get(WrittenSegments(q)[i], "prompt")

\* Six segments were returned and five calls issued.
C3_Witness ==
  \E r \in DOMAIN reqs :
    /\ reqs[r].pc = "FanningOut"
    /\ reqs[r].llmText = Stringify(Descriptor(6, "ok", 0))
    /\ Len(reqs[r].fal) = 5

\* The response of a completed request.
Montage(q) == Get(q.resp[1].body, "montage")

Outputs(q) == Get(q.resp[1].body, "falOutputs").a

\* C4: in a successful response falOutputs[i] is the output of the call
\* issued for segments[i].prompt, whatever the order in which the calls
\* settled: the image of call i is at position i and nowhere else.
C4_OutputsByIndex ==
  \A r \in DOMAIN reqs :
    LET q == reqs[r] IN
    q.pc = "Completed"
      => \A i \in 1..Len(Outputs(q)) :
           /\ q.fal[i].prompt = Get(WrittenSegments(q)[i], "prompt")
           /\ Get(q.fal[i].res, "output") = Image(r, i) => Outputs(q)[i] = Image(r, i)
           /\ Outputs(q)[i].t = "img" => Outputs(q)[i] = Image(r, i)

\* Five images were returned by calls of which one overtook an earlier one.
C4_Witness ==
  \E r \in DOMAIN reqs :
    /\ reqs[r].pc = "Completed"
    /\ reqs[r].overtaken
    /\ Len(Outputs(reqs[r])) = 5
    /\ \A i \in 1..5 : Outputs(reqs[r])[i] = Image(r, i)

\* C5: once an image call of a request has failed, the request's response
\* is HTTP 500 and carries nothing but its error: no falOutputs and no
\* image, however many of the other calls were fulfilled.
C5_AllOrNothing ==
  \A r \in DOMAIN reqs :
    LET q == reqs[r] IN
    (\E i \in DOMAIN q.fal : q.fal[i].st = "rejected")
      => /\ Len(q.resp) = 1
         /\ q.resp[1].status = 500
         /\ DOMAIN q.resp[1].body.o = {"error"}
         /\ q.resp[1].body.o.error.t = "str"

\* Four calls were fulfilled with an image and one was rejected.
C5_Witness ==
  \E r \in DOMAIN reqs :
    /\ reqs[r].pc = "Failed"
    /\ Len(reqs[r].fal) = 5
    /\ \E i \in 1..5 :
         /\ reqs[r].fal[i].st = "rejected"
         /\ \A j \in (1..5) \ {i} : reqs[r].fal[j].res = JObj([output |-> Image(r, j)])

\* The image call's result is absent or has no output field.
NoOutput(res) == res.t = "undef" \/ (res.t = "obj" /\ "output" \notin DOMAIN res.o)

\* C6: a completed request's falOutputs has min(5, montage.segments.length)
\* entries, and a result that is absent or has no output field holds its
\* position as an empty object.
C6_OutputsLength ==
  \A r \in DOMAIN reqs :
    LET q == reqs[r] IN
    q.pc = "Completed"
      => /\ Len(Outputs(q)) = Min(PromptCap, Len(Get(Montage(q), "segments").a))
         /\ \A i \in 1..Len(q.fal) : NoOutput(q.fal[i].res) => Outputs(q)[i] = EmptyObj

\* Six segments, one call answered with nothing, one without output, the
\* others with an image.
C6_Witness ==
  \E r \in DOMAIN reqs :
    /\ reqs[r].pc = "Completed"
    /\ Len(Get(Montage(reqs[r]), "segments").a) = 6
    /\ reqs[r].fal[2].res = JUndef
    /\ reqs[r].fal[4].res = EmptyObj
    /\ \A i \in {1, 3, 5} : Outputs(reqs[r])[i] = Image(r, i)

\* C7: the montage of a completed request has at least minItems segments
\* and every segment has a non-empty prompt.
C7_SchemaConformance ==
  \A r \in DOMAIN reqs :
    LET q == reqs[r] IN
    q.pc = "Completed"
      => LET segments == Get(Montage(q), "segments").a IN
         /\ Len(segments) >= MONTAGE_SCHEMA.minItems
         /\ \A i \in 1..Len(segments) :
              /\ Get(segments[i], "prompt").t = "str"
              /\ Get(segments[i], "prompt").s # ""

\* C8: an accepted request that meets a missing LLM credential, a failed
\* LLM call, a missing image credential (reached once the answer is parsed
\* and its prompts extracted) or a failed image call is answered with
\* HTTP 500 and the generic body.
C8_GenericError ==
  \A r \in DOMAIN reqs :
    LET q == reqs[r] IN
    (Accepted(q) /\ q.pc # "Received")
      => /\ Falsy(env.GOOGLE_API_KEY) => q.resp = <<InternalError>>
         /\ q.llm = "rejected" => q.resp = <<InternalError>>
         /\ (Falsy(env.FAL_AI_API_KEY) /\ q.llm = "fulfilled" /\ q.llmText \in ParsableTexts)
              => q.resp = <<InternalError>>
         /\ (\E i \in DOMAIN q.fal : q.fal[i].st = "rejected") => q.resp = <<InternalError>>
         /\ q.thrown \in {"MissingGoogleKey", "LLMError", "MissingFalKey", "ImageError"}
              => q.resp = <<InternalError>>

\* An accepted request whose prompts were extracted has failed on the
\* missing image credential.
C8_Witness ==
  \E r \in DOMAIN reqs :
    /\ Accepted(reqs[r])
    /\ reqs[r].thrown = "MissingFalKey"
    /\ reqs[r].prompts # <<>>
    /\ reqs[r].resp = <<InternalError>>

\* C9: the montage of a successful response is the descriptor the LLM
\* wrote, whole: the segments beyond the fifth are in it.
C9_MontageUnchanged ==
  \A r \in DOMAIN reqs :
    LET q == reqs[r] IN
    q.pc = "Completed" => Montage(q) = Written(q.llmText)

\* A descriptor of six segments was returned with five images.
C9_Witness ==
  \E r \in DOMAIN reqs :
    /\ reqs[r].pc = "Completed"
    /\ Len(Outputs(reqs[r])) = 5
    /\ Montage(reqs[r]) = Descriptor(6, "ok", 0)

\* Request r, if there is one, is in a terminal state.
Settled(r) == r \in DOMAIN reqs => Terminal(reqs[r])

\* C10: when every outbound call settles, every request reaches Completed
\* or Failed; it has sent exactly one response there and none before; and
\* once terminal its state and its response never change.
C10_OneTerminalState ==
  /\ \A r \in AllReqs : <>Settled(r)
  /\ [](\A r \in DOMAIN reqs :
          Len(reqs[r].resp) = IF Terminal(reqs[r]) THEN 1 ELSE 0)
  /\ [][\A r \in DOMAIN reqs :
          Terminal(reqs[r]) => /\ reqs'[r].pc = reqs[r].pc
                               /\ reqs'[r].resp = reqs[r].resp]_vars

\* A request failed on its first rejected image call, has sent its one
\* response, and all its other calls have settled since, two more of them
\* rejected.
C10_Witness ==
  \E r \in DOMAIN reqs :
    /\ reqs[r].pc = "Failed"
    /\ Len(reqs[r].resp) = 1
    /\ Len(reqs[r].fal) = 5
    /\ \A i \in 1..5 : reqs[r].fal[i].st # "pending"
    /\ Cardinality({i \in 1..5 : reqs[r].fal[i].st = "rejected"}) = 3

\* The image calls of a request that have not settled.
Pending(q) == {i \in DOMAIN q.fal : q.fal[i].st = "pending"}

Rejected(q) == {i \in DOMAIN q.fal : q.fal[i].st = "rejected"}

\* C11 as stated: no request has produced its response while one of its
\* image calls is still in flight.
C11_WaitsForAll ==
  \A r \in DOMAIN reqs : Terminal(reqs[r]) => Pending(reqs[r]) = {}

\* C11 as amended: a success response is produced only when every image
\* call is fulfilled; the failure response is produced at the first
\* rejection, whether or not other image calls are still in flight.
C11_WaitsForSuccessOnly ==
  \A r \in DOMAIN reqs :
    LET q == reqs[r] IN
    /\ q.pc = "Completed" => \A i \in DOMAIN q.fal : q.fal[i].st = "fulfilled"
    /\ q.pc = "FanningOut" => Rejected(q) = {} /\ Pending(q) # {}
    /\ Rejected(q) # {} => q.pc = "Failed" /\ q.resp = <<InternalError>>

\* The first of five image calls to settle was rejected: the response is
\* out and four calls are in flight.
C11_Witness ==
  \E r \in DOMAIN reqs :
    /\ reqs[r].pc = "Failed"
    /\ reqs[r].resp = <<InternalError>>
    /\ Cardinality(Rejected(reqs[r])) = 1
    /\ Cardinality(Pending(reqs[r])) = 4

\* The state of the spec's state machine in which a failed request failed:
\* Received for lines 61-68, Generating for the LLM credential and call
\* (lines 70-79, 87-89), Validating for JSON.parse (91-99), Extracting for
\* the prompt extraction (102-104), FanningOut for the image credential and
\* calls (106-118).
FailedFrom(q) ==
  IF q.thrown = "BodyError" \/ q.resp = <<TextRequired>> THEN "Received"
  ELSE IF q.thrown \in {"MissingGoogleKey", "LLMError"} THEN "Generating"
  ELSE IF q.resp = <<InvalidJson>> THEN "Validating"
  ELSE IF q.thrown = "TypeError" THEN "Extracting"
  ELSE IF q.thrown \in {"MissingFalKey", "ImageError"} THEN "FanningOut"
  ELSE "Aggregating"

\* C12: a request enters Failed only from Received, Generating, Validating
\* or FanningOut, never from Prompting, Extracting or Aggregating.
C12_FailedOnlyFrom ==
  \A r \in DOMAIN reqs :
    reqs[r].pc = "Failed"
      => FailedFrom(reqs[r]) \in {"Received", "Generating", "Validating", "FanningOut"}

\* C13 as stated: while the LLM call or one of the image calls of a request
\* has not settled, the request is in neither terminal state.
C13_HungCallHangs ==
  \A r \in DOMAIN reqs :
    LET q == reqs[r] IN
    (q.llm = "pending" \/ Pending(q) # {}) => ~Terminal(q)

\* C13 as amended: a request whose LLM call has not settled is not
\* terminal, and a request becomes terminal while image call i stays in
\* flight only by failing on the rejection of another of its image calls.
C13_HungCallHangsUnlessRejected ==
  [][\A r \in DOMAIN reqs :
       LET q == reqs[r]
           n == reqs'[r]
       IN
       /\ n.llm = "pending" => ~Terminal(n)
       /\ \A i \in Pending(q) :
            (~Terminal(q) /\ Terminal(n) /\ n.fal[i].st = "pending")
              => /\ n.pc = "Failed"
                 /\ \E j \in Pending(q) \ {i} : n.fal[j].st = "rejected"]_vars

\* Two image calls were fulfilled, then one was rejected and the request
\* failed with two calls in flight.
C13_Witness ==
  \E r \in DOMAIN reqs :
    /\ reqs[r].pc = "Failed"
    /\ Cardinality(Pending(reqs[r])) = 2
    /\ Cardinality(Rejected(reqs[r])) = 1
    /\ Len(reqs[r].fal) = 5

\* C14: over the life of a request the LLM is called at most once and at
\* most one image call is issued per prompt index: the calls issued are
\* never added to, and a call that has settled is never issued again.
C14_NoRetry ==
  /\ [](\A r \in DOMAIN reqs :
          /\ Len(reqs[r].llmCalls) <= 1
          /\ Len(reqs[r].fal) <= Len(reqs[r].prompts))
  /\ [][\A r \in DOMAIN reqs :
          LET q == reqs[r]
              n == reqs'[r]
          IN
          /\ q.llmCalls # <<>> => n.llmCalls = q.llmCalls
          /\ q.llm \in {"fulfilled", "rejected"} => n.llm = q.llm
          /\ q.fal # <<>> => DOMAIN n.fal = DOMAIN q.fal
          /\ \A i \in DOMAIN q.fal :
               /\ n.fal[i].prompt = q.fal[i].prompt
               /\ q.fal[i].st # "pending" => n.fal[i] = q.fal[i]]_vars

\* The LLM call failed, the request has failed, and one call was made.
C14_Witness ==
  \E r \in DOMAIN reqs :
    /\ reqs[r].thrown = "LLMError"
    /\ reqs[r].llm = "rejected"
    /\ Len(reqs[r].llmCalls) = 1

\* The request failed on an answer of the LLM that is no JSON.
ParseFailed(q) == q.llm = "fulfilled" /\ q.llmText \in UnparsableTexts

\* C15 as stated: any two accepted requests that have failed have the same
\* HTTP status and the same response body.
C15_SameFailure ==
  \A r1, r2 \in DOMAIN reqs :
    (Accepted(reqs[r1]) /\ Accepted(reqs[r2])
       /\ reqs[r1].pc = "Failed" /\ reqs[r2].pc = "Failed")
      => reqs[r1].resp = reqs[r2].resp

\* C15 as amended: any two accepted requests that have failed have the same
\* HTTP status, and the same body unless exactly one of them failed on an
\* unparsable answer of the LLM: the body is the invalid-JSON one for an
\* unparsable answer and the generic one for every other failure.
C15_SameFailureButParse ==
  \A r1, r2 \in DOMAIN reqs :
    (Accepted(reqs[r1]) /\ Accepted(reqs[r2])
       /\ reqs[r1].pc = "Failed" /\ reqs[r2].pc = "Failed")
      => /\ Len(reqs[r1].resp) = 1 /\ Len(reqs[r2].resp) = 1
         /\ reqs[r1].resp[1].status = reqs[r2].resp[1].status
         /\ (ParseFailed(reqs[r1]) <=> ParseFailed(reqs[r2]))
              => reqs[r1].resp = reqs[r2].resp
         /\ reqs[r1].resp = IF ParseFailed(reqs[r1]) THEN <<InvalidJson>> ELSE <<InternalError>>

\* One request failed on its LLM call and the other on an image call, and
\* their responses are the same.
C15_Witness ==
  /\ DOMAIN reqs = {1, 2}
  /\ reqs[1].thrown = "LLMError"
  /\ reqs[2].thrown = "ImageError"
  /\ reqs[1].resp = reqs[2].resp

\* C16: an answer that parses as JSON but has no segments array fails the
\* request in the extraction: HTTP 500 with the generic body, not the
\* invalid-JSON body, and no image call.
NoSegmentsTexts ==
  { Stringify(v) :
      v \in { JNull, JNum(42), JArr(<<>>), JStr("hello"),
              JObj([montageTitle |-> JStr("T")]),
              JObj([montageTitle |-> JStr("T"), segments |-> JStr("T")]),
              JObj([montageTitle |-> JStr("T"), segments |-> EmptyObj]) } }

C16_NoSegments ==
  \A r \in DOMAIN reqs :
    LET q == reqs[r] IN
    (q.llm = "fulfilled" /\ q.llmText \in NoSegmentsTexts)
      => /\ q.pc = "Failed"
         /\ q.thrown = "TypeError"
         /\ q.resp = <<InternalError>>
         /\ q.fal = <<>>

\* The LLM answered with an object that has a title and no segments.
C16_Witness ==
  \E r \in DOMAIN reqs :
    /\ reqs[r].llmText = Stringify(JObj([montageTitle |-> JStr("T")]))
    /\ reqs[r].llm = "fulfilled"
    /\ reqs[r].resp = <<InternalError>>

\* C17: with two requests handled concurrently, a step of one request
\* leaves the other as it was, the image calls of a request carry the
\* prompts of its own descriptor, and its response holds its own descriptor
\* and the images of its own calls.
C17_RequestIsolation ==
  /\ [](\A r \in DOMAIN reqs :
          LET q == reqs[r] IN
          /\ FannedOut(q)
               => \A i \in DOMAIN q.fal :
                    q.fal[i].prompt = Get(WrittenSegments(q)[i], "prompt")
          /\ q.pc = "Completed"
               => /\ Montage(q) = Written(q.llmText)
                  /\ \A i \in 1..Len(Outputs(q)) :
                       Outputs(q)[i] \in {EmptyObj, Image(r, i)})
  /\ [][\E r \in DOMAIN reqs : \A x \in DOMAIN reqs \ {r} : reqs'[x] = reqs[x]]_vars

\* Both requests completed, with descriptors of different lengths and each
\* with the images of its own calls.
C17_Witness ==
  /\ DOMAIN reqs = {1, 2}
  /\ reqs[1].pc = "Completed" /\ reqs[2].pc = "Completed"
  /\ Montage(reqs[1]) = Descriptor(2, "ok", 0)
  /\ Montage(reqs[2]) = Descriptor(1, "ok", 0)
  /\ Outputs(reqs[1]) = <<Image(1, 1), Image(1, 2)>>
  /\ Outputs(reqs[2]) = <<Image(2, 1)>>

\* C18: a request has at most 5 image calls in flight; an image call is in
\* flight only when the LLM call has returned and its answer was parsed;
\* the LLM call and an image call of a request are never in flight together.
C18_FlightOrder ==
  \A r \in DOMAIN reqs :
    LET q == reqs[r] IN
    /\ Cardinality(Pending(q)) <= PromptCap
    /\ Pending(q) # {}
         => /\ q.llm = "fulfilled"
            /\ q.llmText \in ParsableTexts
            /\ q.montageData = Written(q.llmText)
    /\ q.llm = "pending" => q.fal = <<>>

\* Five image calls are in flight for an answer of six segments.
C18_Witness ==
  \E r \in DOMAIN reqs :
    /\ Cardinality(Pending(reqs[r])) = 5
    /\ reqs[r].llm = "fulfilled"
    /\ Len(WrittenSegments(reqs[r])) = 6

\* C19: for an accepted request, a missing LLM credential means no LLM call
\* and no image call; a missing image credential alone means no image call,
\* and the request fails only after its one LLM call has settled, on the
\* credential only after the answer was parsed.
C19_CredentialGates ==
  \A r \in DOMAIN reqs :
    LET q == reqs[r] IN
    (Accepted(q) /\ q.pc # "Received")
      => /\ Falsy(env.GOOGLE_API_KEY)
              => q.llmCalls = <<>> /\ q.llm = "idle" /\ q.fal = <<>> /\ q.pc = "Failed"
         /\ (~Falsy(env.GOOGLE_API_KEY) /\ Falsy(env.FAL_AI_API_KEY))
              => /\ q.fal = <<>>
                 /\ Len(q.llmCalls) = 1
                 /\ q.pc = "Failed" => q.llm \in {"fulfilled", "rejected"}
                 /\ q.thrown = "MissingFalKey"
                      => /\ q.llm = "fulfilled"
                         /\ q.montageData = Written(q.llmText)
                 /\ (q.llm = "fulfilled" /\ q.llmText \in ParsableTexts
                       /\ q.llmText \notin NoSegmentsTexts
                       /\ \A i \in DOMAIN WrittenSegments(q) : WrittenSegments(q)[i] # JNull)
                      => q.thrown = "MissingFalKey"

\* Only the image credential is missing: the LLM was called, its answer of
\* two segments parsed, and the request failed without an image call.
C19_Witness ==
  \E r \in DOMAIN reqs :
    /\ ~Falsy(env.GOOGLE_API_KEY)
    /\ Falsy(env.FAL_AI_API_KEY)
    /\ reqs[r].thrown = "MissingFalKey"
    /\ reqs[r].montageData = Descriptor(2, "ok", 0)
    /\ reqs[r].fal = <<>>

====
